---- MODULE Spec2Model ----
(***************************************************************************)
(* Model of the GeoIP lookup service (app.py): the database file on disk,  *)
(* the background refresh thread (schedule_db_updates / download_latest_db)*)
(* and the two request handlers (lookup_ip, lookup_ip_parameter) that read *)
(* the database through local_ip_lookup; and of the process supervisor     *)
(* (server_manager.py) that starts and stops the service by a PID file.    *)
(*                                                                         *)
(* The file system is modelled as POSIX does it: a path names an inode,    *)
(* an open handle is bound to the inode and not to the path, os.replace    *)
(* rebinds the destination path in one step, and an inode lives for as     *)
(* long as a path or a handle refers to it.                                *)
(***************************************************************************)
EXTENDS Integers, Sequences, FiniteSets, TLC

\* ------------------------------------------------------------------ bounds
\* number of lookups that can be in flight at once
MaxReq == 1
\* number of write steps a response body takes to reach the disk
BodyLen == 2
\* number of clock steps one REFRESH_INTERVAL is divided into
TicksPerInterval == 1
\* number of characters a request header's value can have
MaxHeaderLen == 2
\* number of server_manager.py commands that can run at the same time
MaxCmds == 2
\* number of commands run in all
MaxRuns == 3
\* number of server processes started in all
MaxSpawns == 2

\* --------------------------------------------------------------- constants
DB_FILE == "GeoLite2-City.mmdb"

REFRESH_INTERVAL == 24 * 60 * 60

\* a variant of tmp_path that names the database file itself
tmp_path_inplace == DB_FILE

\* DB_FILE + ".tmp"
tmp_path == "GeoLite2-City.mmdb.tmp"

Paths == {DB_FILE, tmp_path}

\* one inode for the database, one for the temporary file, one for each
\* handle that still holds a replaced database
Inodes == 0 .. (MaxReq + 1)
\* a path that names nothing, a handle that is not open
NoFile == MaxReq + 2

\* the content of a file: what the bytes are (a database snapshot, "mmdb", or
\* the body of an error response, "page") and how many of its BodyLen parts
\* are written. Which snapshot a file holds is told by its inode: every
\* download is written to a file of its own
Unused == [kind |-> "none", len |-> 0]
InitialFile == [kind |-> "mmdb", len |-> BodyLen]

TickLen == REFRESH_INTERVAL \div TicksPerInterval

Min(a, b) == IF a < b THEN a ELSE b
Max(a, b) == IF a > b THEN a ELSE b

\* the address the start-up test looks up, an address no snapshot holds, and
\* a string that is no address
KnownIP == "116.96.47.227"
AbsentIP == "10.0.0.1"
MalformedIP == "not-an-ip"
\* request.args.get('ip') when the parameter is not given
None == "None"
IPs == {KnownIP, AbsentIP, MalformedIP}

VARIABLES
    mode,        \* "script": app.py run as __main__; "imported": app served by a WSGI host
    main_pc,     \* position of the main thread in the __main__ block
    fs,          \* path -> inode, or NoFile
    inodes,      \* inode -> content [ver, len], or Unused
    sched_pc,    \* position of the update thread
    response,    \* download_latest_db's local: what requests.get returned
    outcome,     \* what download_latest_db printed last
    sleep_left,  \* seconds left of the update thread's time.sleep
    since_end,   \* seconds passed since the last cycle finished
    cycle_start, \* the files as they were when the current cycle started
    readers,     \* inode -> number of open handles of a Reader on it
    calls,       \* number of calls of local_ip_lookup by a handler that have not returned
    last,        \* the reply a handler has just returned, NoReply when sent
    headers,     \* request.headers: header name -> value, for the headers sent
    remote_addr, \* request.remote_addr
    client_ip,   \* what get_client_ip returned for the request, when it has
    pid_file,    \* geoip-api.pid: whether it exists, and the PID in it (NoPid: none)
    log_file,    \* geoip-api.log: the server process it was last emptied for
    procs,       \* PID -> state of the server process and the command it is a child of
    cmds,        \* the server_manager.py processes: command, position and locals
    runs,        \* number of commands run so far
    overlap      \* whether commands are run side by side or one after the other

app_vars == <<mode, main_pc, fs, inodes, sched_pc, response, outcome, sleep_left,
              since_end, cycle_start, readers, calls, last>>

resolver_vars == <<headers, remote_addr, client_ip>>

manager_vars == <<pid_file, log_file, procs, cmds, runs, overlap>>

vars == <<app_vars, resolver_vars, manager_vars>>

\* ------------------------------------------------------------- file system
Complete(file) == file.len = BodyLen

\* a file the lookup library can read: all of a database snapshot
Valid(file) == file.kind = "mmdb" /\ Complete(file)

Content(p) == IF fs[p] = NoFile THEN Unused ELSE inodes[fs[p]]

Snapshot == [p \in Paths |-> <<fs[p], Content(p)>>]

Referenced(fsv, rd) ==
    {fsv[p] : p \in Paths} \cup {i \in Inodes : rd[i] > 0}

\* an inode no path and no handle refers to is freed
Reclaim(tbl, fsv, rd) ==
    [i \in Inodes |-> IF i \in Referenced(fsv, rd) THEN tbl[i] ELSE Unused]

FreeInode ==
    CHOOSE i \in Inodes :
        /\ i \notin Referenced(fs, readers)
        /\ \A j \in Inodes : j \notin Referenced(fs, readers) => i <= j

RECURSIVE SumOver(_, _)
SumOver(f, S) ==
    IF S = {} THEN 0
    ELSE LET x == CHOOSE y \in S : TRUE IN f[x] + SumOver(f, S \ {x})

\* the database handles that are open
OpenHandles == SumOver(readers, Inodes)

\* the lookups in flight: the handlers inside local_ip_lookup
InFlight == calls

\* no reply: the step was not the return of a handler
NoReply ==
    [pc |-> "none", handler |-> "none", ip |-> None, exc |-> "none", status |-> 0,
     success |-> FALSE, error |-> <<>>, result_from |-> NoFile, opened |-> NoFile,
     replaced |-> FALSE]

\* no reply waits to be sent. A reply is looked at in the state its handler
\* returns in, before any other step is taken: sending it changes nothing but
\* last, so this leaves out no interleaving of the threads
Quiet == last = NoReply

\* ---------------------------------------------------------- the lookup engine
\* geoip2.database.Reader(path): what opening the file raises
Reader(file) ==
    IF file = Unused THEN "FileNotFoundError"
    ELSE IF ~Valid(file) THEN "InvalidDatabaseError"
    ELSE "none"

\* reader.city(ip) on an open database: what the query raises
city(file, ip) ==
    IF ~Valid(file) THEN "InvalidDatabaseError"
    ELSE IF ip = MalformedIP THEN "ValueError"
    ELSE IF ip = AbsentIP THEN "AddressNotFoundError"
    ELSE "none"

\* ------------------------------------------------------------ the update thread
SchedulerExceptions == {"ConnectionError", "Timeout", "HTTPError", "OSError"}

NoResponse == [exc |-> "none", status |-> 0, body |-> "none"]

\* what requests.get(DB_URL, timeout=3600) can give: a transport failure, or a
\* response with a status and a body
Responses ==
    {[exc |-> e, status |-> 0, body |-> "none"] : e \in {"ConnectionError", "Timeout"}}
    \cup {[exc |-> "none", status |-> 200, body |-> "mmdb"]}
    \cup {[exc |-> "none", status |-> s, body |-> "page"] : s \in {404, 503}}

\* a variant that lets every status through
raise_for_status_skipped(r) == "none"

\* response.raise_for_status()
raise_for_status(r) == IF r.status >= 400 THEN "HTTPError" ELSE "none"

\* a variant of the except clause that names the transport errors only
download_catches_requests_only(exc) ==
    exc \in {"ConnectionError", "Timeout", "HTTPError"}

\* except Exception as e
download_catches(exc) == exc \in SchedulerExceptions

\* a variant that retries a failed cycle at once
sleep_seconds_retry(out) == IF out = "ok" THEN REFRESH_INTERVAL ELSE 0

\* time.sleep(REFRESH_INTERVAL), whatever the cycle printed
sleep_seconds(out) == REFRESH_INTERVAL

\* the cycle is over (it printed `out`): _run goes to sleep
EndCycle(out) ==
    /\ outcome' = out
    /\ response' = NoResponse
    /\ sched_pc' = "sleeping"
    /\ sleep_left' = sleep_seconds(out)
    /\ since_end' = 0

\* `exc` is raised inside download_latest_db's try block
Raise(exc) ==
    IF download_catches(exc)
    THEN EndCycle(exc)
    ELSE /\ outcome' = exc
         /\ response' = NoResponse
         /\ sched_pc' = "dead"
         /\ UNCHANGED <<sleep_left, since_end>>

\* requests.get and raise_for_status
Fetch ==
    /\ Quiet
    /\ sched_pc = "download"
    /\ \E r \in Responses :
         LET exc == IF r.exc # "none" THEN r.exc ELSE raise_for_status(r)
         IN IF exc # "none"
            THEN Raise(exc)
            ELSE /\ response' = r
                 /\ sched_pc' = "open"
                 /\ UNCHANGED <<outcome, sleep_left, since_end>>
    /\ UNCHANGED <<mode, main_pc, fs, inodes, cycle_start, readers>>
    /\ UNCHANGED <<calls, last>>
    /\ UNCHANGED <<resolver_vars, manager_vars>>

\* open(tmp_path, "wb"): creates the file, or empties the one that is there
OpenTmp ==
    /\ Quiet
    /\ sched_pc = "open"
    /\ \/ /\ LET i == IF fs[tmp_path] = NoFile THEN FreeInode ELSE fs[tmp_path]
              IN /\ fs' = [fs EXCEPT ![tmp_path] = i]
                 /\ inodes' = [inodes EXCEPT ![i] = [kind |-> response.body, len |-> 0]]
          /\ sched_pc' = "write"
          /\ UNCHANGED <<response, outcome, sleep_left, since_end>>
       \/ /\ Raise("OSError")
          /\ UNCHANGED <<fs, inodes>>
    /\ UNCHANGED <<mode, main_pc, cycle_start, readers>>
    /\ UNCHANGED <<calls, last>>
    /\ UNCHANGED <<resolver_vars, manager_vars>>

\* a variant that goes on to os.replace while part of the body is still to be
\* written (the replace moved inside the with block, before the file is closed)
written_and_closed_early(len) == len >= 1

\* the with block is left, and the file closed, when all of the body is written
written_and_closed(len) == len = BodyLen

\* f.write(response.content): the bytes reach the file one part at a time, and
\* the write can fail after any of them (disk full)
Write ==
    /\ Quiet
    /\ sched_pc = "write"
    /\ LET i == fs[tmp_path]
       IN \/ /\ inodes' = [inodes EXCEPT ![i].len = @ + 1]
             /\ sched_pc' = IF written_and_closed(inodes[i].len + 1)
                             THEN "replace" ELSE "write"
             /\ UNCHANGED <<response, outcome, sleep_left, since_end>>
          \/ /\ Raise("OSError")
             /\ UNCHANGED inodes
    /\ UNCHANGED <<mode, main_pc, fs, cycle_start, readers>>
    /\ UNCHANGED <<calls, last>>
    /\ UNCHANGED <<resolver_vars, manager_vars>>

\* os.replace(tmp_path, DB_FILE): one step that rebinds DB_FILE; the inode it
\* named before lives on while a handle holds it
Replace ==
    /\ Quiet
    /\ sched_pc = "replace"
    /\ \/ /\ LET fsv == IF tmp_path = DB_FILE THEN fs
                         ELSE [p \in Paths |-> IF p = DB_FILE THEN fs[tmp_path] ELSE NoFile]
              IN /\ fs' = fsv
                 /\ inodes' = Reclaim(inodes, fsv, readers)
          /\ EndCycle("ok")
       \/ /\ Raise("OSError")
          /\ UNCHANGED <<fs, inodes>>
    /\ UNCHANGED <<mode, main_pc, cycle_start, readers>>
    /\ UNCHANGED <<calls, last>>
    /\ UNCHANGED <<resolver_vars, manager_vars>>

\* time passes while the thread sleeps
Tick ==
    /\ Quiet
    /\ sched_pc = "sleeping"
    /\ sleep_left > 0
    /\ sleep_left' = Max(0, sleep_left - TickLen)
    /\ since_end' = Min(REFRESH_INTERVAL, since_end + TickLen)
    /\ UNCHANGED <<mode, main_pc, fs, inodes, sched_pc, response, outcome,
                   cycle_start, readers>>
    /\ UNCHANGED <<calls, last>>
    /\ UNCHANGED <<resolver_vars, manager_vars>>

\* time.sleep returns and the loop calls download_latest_db again
Wake ==
    /\ Quiet
    /\ sched_pc = "sleeping"
    /\ sleep_left = 0
    /\ sched_pc' = "download"
    /\ outcome' = "downloading"
    /\ cycle_start' = Snapshot
    /\ UNCHANGED <<mode, main_pc, fs, inodes, response, sleep_left, since_end, readers>>
    /\ UNCHANGED <<calls, last>>
    /\ UNCHANGED <<resolver_vars, manager_vars>>

\* -------------------------------------------------------------- the main thread
\* result = local_ip_lookup("116.96.47.227"), outside any try block
StartupLookup ==
    /\ Quiet
    /\ mode = "script"
    /\ main_pc = "start"
    /\ LET opened == Reader(Content(DB_FILE))
           exc == IF opened # "none" THEN opened ELSE city(Content(DB_FILE), KnownIP)
       IN main_pc' = IF exc = "none" THEN "tested" ELSE "crashed"
    /\ UNCHANGED <<mode, fs, inodes, sched_pc, response, outcome, sleep_left,
                   since_end, cycle_start, readers>>
    /\ UNCHANGED <<calls, last>>
    /\ UNCHANGED <<resolver_vars, manager_vars>>

\* schedule_db_updates(): the thread starts, and _run calls download_latest_db
\* before its first sleep
schedule_db_updates ==
    /\ Quiet
    /\ main_pc = "tested"
    /\ main_pc' = "scheduled"
    /\ sched_pc = "none"
    /\ sched_pc' = "download"
    /\ outcome' = "downloading"
    /\ cycle_start' = Snapshot
    /\ UNCHANGED <<mode, fs, inodes, response, sleep_left, since_end, readers>>
    /\ UNCHANGED <<calls, last>>
    /\ UNCHANGED <<resolver_vars, manager_vars>>

\* app.run(...)
AppRun ==
    /\ Quiet
    /\ main_pc = "scheduled"
    /\ main_pc' = "serving"
    /\ UNCHANGED <<mode, fs, inodes, sched_pc, response, outcome, sleep_left,
                   since_end, cycle_start, readers>>
    /\ UNCHANGED <<calls, last>>
    /\ UNCHANGED <<resolver_vars, manager_vars>>

\* ------------------------------------------------------------ request handlers
Handlers == {"lookup_ip", "lookup_ip_parameter"}

LookupExceptions ==
    {"AddressNotFoundError", "ValueError", "FileNotFoundError", "InvalidDatabaseError"}

UsageHint == "IP parameter is required. Usage: /lookup_ip?ip=x.x.x.x"
NotFoundMessage == "IP address not found in database"

\* An error message is the sequence of the pieces of text it is put together
\* from, so that what a message names can be told.
\* str(e): the message of the exception, which for a file that cannot be
\* opened or read names the path given to Reader, and for a malformed address
\* the address
str(exc, ip) ==
    IF exc = "FileNotFoundError"
    THEN <<"[Errno 2] No such file or directory: '", DB_FILE, "'">>
    ELSE IF exc = "InvalidDatabaseError"
    THEN <<"Error opening database file (", DB_FILE,
           "). Is this a valid MaxMind DB file?">>
    ELSE <<"'", ip, "' does not appear to be an IPv4 or IPv6 address">>

\* a variant whose general except clause names ValueError only
handler_catches_value_error_only(exc) ==
    exc \in {"AddressNotFoundError", "ValueError"}

\* except geoip2.errors.AddressNotFoundError / except Exception as e
handler_catches(exc) == exc \in LookupExceptions

\* a variant with the general clause first
status_for_general_first(exc) == IF exc = "none" THEN 200 ELSE 500

\* the status each return statement of a handler carries
status_for(exc) ==
    IF exc = "none" THEN 200
    ELSE IF exc = "AddressNotFoundError" THEN 404
    ELSE 500

\* what handler h returns for ip when local_ip_lookup ended with exc, having
\* read file i; an exception no clause catches leaves the handler
Respond(h, ip, exc, i) ==
    IF ~handler_catches(exc) /\ exc # "none"
    THEN [NoReply EXCEPT !.pc = "escaped", !.handler = h, !.ip = ip, !.exc = exc]
    ELSE [NoReply EXCEPT !.pc = "returned", !.handler = h, !.ip = ip, !.exc = exc,
                         !.status = status_for(exc),
                         !.success = (exc = "none"),
                         !.error = IF exc = "none" THEN <<>>
                                   ELSE IF exc = "AddressNotFoundError"
                                   THEN <<NotFoundMessage>>
                                   ELSE str(exc, ip),
                         !.result_from = IF exc = "none" THEN i ELSE NoFile]

\* a variant that reads the download where it lands first: it opens the
\* temporary file when there is one
open_target_tmp == IF fs[tmp_path] # NoFile THEN fs[tmp_path] ELSE fs[DB_FILE]

\* geoip2.database.Reader('GeoLite2-City.mmdb'): the file the path names now
open_target == fs[DB_FILE]

\* a variant that goes through the path again when it reads
query_target_by_path(handle) == fs[DB_FILE]

\* reader.city(ip) reads through the handle the reader holds
query_target(handle) == handle

\* a handler of hs, with an ip of ips, calls local_ip_lookup: Reader(...) opens
\* the file the path names, or raises, and then the handler returns at once
EnterLookup(hs, ips) ==
    /\ InFlight < MaxReq
    /\ LET i == open_target
           file == IF i = NoFile THEN Unused ELSE inodes[i]
           exc == Reader(file)
       IN IF exc # "none"
          THEN /\ \E h \in hs, ip \in ips : last' = Respond(h, ip, exc, NoFile)
               /\ UNCHANGED <<readers, calls>>
          ELSE /\ readers' = [readers EXCEPT ![i] = @ + 1]
               /\ calls' = calls + 1
               /\ UNCHANGED last

\* what request.args.get('ip') gives when the request carries no ip value: the
\* parameter is not there, or it is there and empty
NoValue == {None, ""}

\* a variant that tests `ip is None`
not_ip_none_only(ip) == ip = None

\* `not ip`
not_ip(ip) == ip \in {None, ""}

\* lookup_ip_parameter for a request without an ip value: the 400 return, and
\* the call of local_ip_lookup that the test of ip guards
MissingParameter ==
    /\ Quiet
    /\ main_pc = "serving"
    /\ \E ip \in NoValue :
         IF not_ip(ip)
         THEN /\ last' = [NoReply EXCEPT !.pc = "returned",
                                         !.handler = "lookup_ip_parameter",
                                         !.ip = ip, !.status = 400,
                                         !.error = <<UsageHint>>]
              /\ UNCHANGED <<readers, calls>>
         ELSE EnterLookup({"lookup_ip_parameter"}, {ip})
    /\ UNCHANGED <<mode, main_pc, fs, inodes, sched_pc, response, outcome,
                   sleep_left, since_end, cycle_start>>
    /\ UNCHANGED <<resolver_vars, manager_vars>>

\* a handler from its entry to the Reader(...) call of local_ip_lookup. The ip
\* is get_client_ip() for lookup_ip and request.args.get('ip') for
\* lookup_ip_parameter; nothing reads it before reader.city(ip), so the model
\* draws it where the handler first uses it: here when Reader raises, in
\* LookupQuery otherwise
LookupOpen ==
    /\ Quiet
    /\ main_pc = "serving"
    /\ EnterLookup(Handlers, IPs)
    /\ UNCHANGED <<mode, main_pc, fs, inodes, sched_pc, response, outcome,
                   sleep_left, since_end, cycle_start>>
    /\ UNCHANGED <<resolver_vars, manager_vars>>

\* a variant that closes the reader after the result is built, outside any
\* with or finally: an exception of reader.city passes the close by
reader_closed_on_success(exc) == exc = "none"

\* the with block closes the reader however it is left
reader_closed(exc) == TRUE

\* a lookup whose reader holds `handle`: reader.city(ip), the end of the with
\* block, and the handler's return
LookupQuery(handle) ==
    /\ Quiet
    /\ calls > 0
    /\ readers[handle] > 0
    /\ LET i == query_target(handle)
           file == IF i = NoFile THEN Unused ELSE inodes[i]
       IN \E h \in Handlers, ip \in IPs :
            LET exc == city(file, ip)
                rd == IF reader_closed(exc)
                      THEN [readers EXCEPT ![handle] = @ - 1]
                      ELSE readers
            IN /\ last' = [Respond(h, ip, exc, i)
                              EXCEPT !.opened = handle,
                                     !.replaced = (handle # fs[DB_FILE])]
               /\ readers' = rd
               /\ inodes' = Reclaim(inodes, fs, rd)
    /\ calls' = calls - 1
    /\ UNCHANGED <<mode, main_pc, fs, sched_pc, response, outcome, sleep_left,
                   since_end, cycle_start>>
    /\ UNCHANGED <<resolver_vars, manager_vars>>

\* ------------------------------------------------------------- get_client_ip
\* A string the resolver cuts and trims is a sequence of its characters.
\* the headers get_client_ip reads, in the order it reads them
ProxyHeaders == <<"X-Forwarded-For", "X-Real-IP", "CF-Connecting-IP", "X-Originating-IP">>

\* the characters a value of each header is made of: a digit that tells the
\* header, the blank, and for X-Forwarded-For the comma
HeaderChars(k) ==
    IF k = "X-Forwarded-For" THEN {"1", ",", " "}
    ELSE IF k = "X-Real-IP" THEN {"2", " "}
    ELSE IF k = "CF-Connecting-IP" THEN {"3", " "}
    ELSE {"4", " "}

RECURSIVE SeqsUpTo(_, _)
SeqsUpTo(S, n) ==
    IF n = 0 THEN {<<>>}
    ELSE LET shorter == SeqsUpTo(S, n - 1)
         IN shorter \cup {Append(q, c) : q \in shorter, c \in S}

HeaderValues(k) == SeqsUpTo(HeaderChars(k), MaxHeaderLen)

RemoteAddrs == {<<"8">>, <<"9">>}

\* get_client_ip has not returned
NotResolved == [done |-> FALSE, ip |-> <<>>]

\* str.strip()
RECURSIVE lstrip(_)
lstrip(v) == IF v # <<>> /\ Head(v) = " " THEN lstrip(Tail(v)) ELSE v

RECURSIVE rstrip(_)
rstrip(v) ==
    IF v # <<>> /\ v[Len(v)] = " " THEN rstrip(SubSeq(v, 1, Len(v) - 1)) ELSE v

strip(v) == rstrip(lstrip(v))

\* a variant that takes the entry after the last comma: .split(',')[-1]
RECURSIVE split_last(_)
split_last(v) ==
    IF v = <<>> \/ v[Len(v)] = "," THEN <<>>
    ELSE Append(split_last(SubSeq(v, 1, Len(v) - 1)), v[Len(v)])

\* .split(',')[0]
RECURSIVE split_first(_)
split_first(v) ==
    IF v = <<>> \/ Head(v) = "," THEN <<>>
    ELSE <<Head(v)>> \o split_first(Tail(v))

\* a variant of the entry taken from X-Forwarded-For
forwarded_entry_last(v) == split_last(v)

\* request.headers.get('X-Forwarded-For').split(',')[0]
forwarded_entry(v) == split_first(v)

\* `if request.headers.get(k)`: the header is sent and its value is not empty
header_given(h, k) == k \in DOMAIN h /\ h[k] # <<>>

get_client_ip(h, addr) ==
    IF header_given(h, "X-Forwarded-For")
    THEN strip(forwarded_entry(h["X-Forwarded-For"]))
    ELSE IF header_given(h, "X-Real-IP") THEN strip(h["X-Real-IP"])
    ELSE IF header_given(h, "CF-Connecting-IP") THEN strip(h["CF-Connecting-IP"])
    ELSE IF header_given(h, "X-Originating-IP") THEN strip(h["X-Originating-IP"])
    ELSE addr

\* a request is resolved: get_client_ip() returns
ResolveClientIP ==
    /\ ~client_ip.done
    /\ client_ip' = [done |-> TRUE, ip |-> get_client_ip(headers, remote_addr)]
    /\ UNCHANGED <<headers, remote_addr>>
    /\ UNCHANGED <<app_vars, manager_vars>>

\* ----------------------------------------------------------- server_manager.py
\* Every command (python3 server_manager.py start|stop|status) is a process of
\* its own that runs main() once. The server is started as a child of the
\* start command; when it ends while that command is still running it stays
\* in the process table as a zombie until the command exits, and os.kill(pid, 0)
\* succeeds on a zombie as it does on a running process.
Pids == 1 .. MaxSpawns

Cmds == 1 .. MaxCmds

Commands == {"start", "stop", "status"}

\* get_pid's None: there is no PID file, or its text is no number
NoPid == 0

\* for _ in range(10)
WaitChecks == 10

\* the PID file: whether the path exists, the number in it (NoPid while it is
\* empty), and which file it is: ino counts the files created at the path
NoPidFile == [exists |-> FALSE, pid |-> NoPid, ino |-> 0]

Unborn == [state |-> "unborn", parent |-> 0]

\* the server processes that run
Alive == {p \in Pids : procs[p].state = "running"}

\* the server processes started so far
Spawned == Cardinality({p \in Pids : procs[p].state # "unborn"})

\* what a command finds when it starts
Entry ==
    [pid_file |-> pid_file, log_file |-> log_file, alive |-> Alive,
     spawned |-> Spawned]

Idle ==
    [op |-> "none", pc |-> "idle", pid |-> NoPid, child |-> NoPid, fd |-> 0,
     tries |-> 0, signals |-> <<>>, found |-> "none", result |-> FALSE,
     outcome |-> "none",
     entry |-> [pid_file |-> NoPidFile, log_file |-> 0, alive |-> {},
               spawned |-> 0]]

\* the process is in the process table: os.kill(pid, sig) does not raise
Exists(pid) == pid \in Pids /\ procs[pid].state \in {"running", "zombie"}

\* what a process that ends becomes: a zombie while the command that started
\* it runs, nothing when it has been handed over to init
Ended(p) ==
    IF procs[p].parent \in Cmds THEN [procs[p] EXCEPT !.state = "zombie"]
    ELSE [procs[p] EXCEPT !.state = "gone"]

\* get_pid(): int(f.read().strip()), None for a missing or an empty file
get_pid == IF pid_file.exists THEN pid_file.pid ELSE NoPid

\* is_running(pid): os.kill(pid, 0) did not raise
is_running(pid) == pid # NoPid /\ Exists(pid)

\* cleanup(): os.remove(self.pid_file) if it exists
cleanup == [pid_file EXCEPT !.exists = FALSE, !.pid = NoPid]

\* a variant that shuts down with SIGKILL at once
graceful_signal_kill == "SIGKILL"

\* os.kill(pid, signal.SIGTERM)
graceful_signal == "SIGTERM"

\* os.kill(pid, signal.SIGKILL)
forced_signal == "SIGKILL"

\* the process table after os.kill(p, sig): SIGKILL ends the process, SIGTERM
\* asks it to end, which it does in a step of its own
Signalled(p, sig) ==
    IF sig = "SIGKILL" /\ procs[p].state = "running"
    THEN [procs EXCEPT ![p] = Ended(p)]
    ELSE procs

\* the command returns `result`; `found` keeps the state the process checked
\* last was in at that check
Return(c, op, result, how) ==
    [cmds[c] EXCEPT !.op = op, !.pc = "returned", !.result = result,
                    !.outcome = how]

\* a command can be run: its slot is free, and the others are too unless
\* commands are run side by side
CanBegin(c) ==
    /\ cmds[c].pc = "idle"
    /\ runs < MaxRuns
    /\ overlap \/ \A d \in Cmds : cmds[d].pc = "idle"

\* start(), lines 43-46: the test for a server that runs already
StartBegin(c) ==
    /\ CanBegin(c)
    /\ Spawned + Cardinality({d \in Cmds : cmds[d].pc = "spawn"}) < MaxSpawns
    /\ LET pid == get_pid
           here == [Idle EXCEPT !.op = "start", !.entry = Entry]
       IN cmds' = [cmds EXCEPT ![c] =
                     IF pid # NoPid /\ is_running(pid)
                     THEN [here EXCEPT !.pc = "returned", !.outcome = "already_running"]
                     ELSE [here EXCEPT !.pc = "spawn"]]
    /\ runs' = runs + 1
    /\ UNCHANGED <<pid_file, log_file, procs, overlap>>
    /\ UNCHANGED <<app_vars, resolver_vars>>

\* start(), lines 51-57: the log file is emptied and the server started
StartSpawn(c) ==
    /\ cmds[c].pc = "spawn"
    /\ LET p == Spawned + 1
       IN /\ procs' = [procs EXCEPT ![p] = [state |-> "running", parent |-> c]]
          /\ log_file' = p
          /\ cmds' = [cmds EXCEPT ![c].child = p, ![c].pc = "open_pid"]
    /\ UNCHANGED <<pid_file, runs, overlap>>
    /\ UNCHANGED <<app_vars, resolver_vars>>

\* start(), line 60: open(self.pid_file, 'w') creates the file or empties it
StartOpenPid(c) ==
    /\ cmds[c].pc = "open_pid"
    /\ LET ino == IF pid_file.exists THEN pid_file.ino ELSE pid_file.ino + 1
       IN /\ pid_file' = [exists |-> TRUE, pid |-> NoPid, ino |-> ino]
          /\ cmds' = [cmds EXCEPT ![c].fd = ino, ![c].pc = "write_pid"]
    /\ UNCHANGED <<log_file, procs, runs, overlap>>
    /\ UNCHANGED <<app_vars, resolver_vars>>

\* start(), line 61: f.write(str(process.pid)) and the close; the text goes
\* to the file that was opened, which may have been removed from the path
StartWritePid(c) ==
    /\ cmds[c].pc = "write_pid"
    /\ pid_file' = IF pid_file.exists /\ pid_file.ino = cmds[c].fd
                   THEN [pid_file EXCEPT !.pid = cmds[c].child]
                   ELSE pid_file
    /\ cmds' = [cmds EXCEPT ![c].pc = "verify"]
    /\ UNCHANGED <<log_file, procs, runs, overlap>>
    /\ UNCHANGED <<app_vars, resolver_vars>>

\* start(), lines 64-72: after time.sleep(2), is_running(process.pid)
StartVerify(c) ==
    /\ cmds[c].pc = "verify"
    /\ LET seen == procs[cmds[c].child].state
       IN IF is_running(cmds[c].child)
          THEN /\ cmds' = [cmds EXCEPT ![c] =
                             [Return(c, "start", TRUE, "started") EXCEPT !.found = seen]]
               /\ UNCHANGED pid_file
          ELSE /\ cmds' = [cmds EXCEPT ![c] =
                             [Return(c, "start", FALSE, "failed") EXCEPT !.found = seen]]
               /\ pid_file' = cleanup
    /\ UNCHANGED <<log_file, procs, runs, overlap>>
    /\ UNCHANGED <<app_vars, resolver_vars>>

\* stop(), lines 76-86: no PID, or the PID of no process (a stale PID file)
StopBegin(c) ==
    /\ CanBegin(c)
    /\ LET pid == get_pid
           here == [Idle EXCEPT !.op = "stop", !.entry = Entry, !.pid = pid]
       IN IF pid = NoPid
          THEN /\ cmds' = [cmds EXCEPT ![c] =
                             [here EXCEPT !.pc = "returned", !.outcome = "not_running"]]
               /\ UNCHANGED pid_file
          ELSE IF ~is_running(pid)
          THEN /\ cmds' = [cmds EXCEPT ![c] =
                             [here EXCEPT !.pc = "returned", !.outcome = "stale"]]
               /\ pid_file' = cleanup
          ELSE /\ cmds' = [cmds EXCEPT ![c] = [here EXCEPT !.pc = "term"]]
               /\ UNCHANGED pid_file
    /\ runs' = runs + 1
    /\ UNCHANGED <<log_file, procs, overlap>>
    /\ UNCHANGED <<app_vars, resolver_vars>>

\* os.kill raised inside the try block of stop(), lines 108-111
StopError(c) ==
    /\ cmds' = [cmds EXCEPT ![c] = Return(c, "stop", FALSE, "error")]
    /\ pid_file' = cleanup
    /\ UNCHANGED procs

\* stop(), line 90: the graceful signal
StopTerm(c) ==
    /\ cmds[c].pc = "term"
    /\ IF ~Exists(cmds[c].pid)
       THEN StopError(c)
       ELSE /\ procs' = Signalled(cmds[c].pid, graceful_signal)
            /\ cmds' = [cmds EXCEPT ![c].signals = Append(@, graceful_signal),
                                    ![c].pc = "wait"]
            /\ UNCHANGED pid_file
    /\ UNCHANGED <<log_file, runs, overlap>>
    /\ UNCHANGED <<app_vars, resolver_vars>>

\* stop(), lines 93-96: one pass of the loop, a check and a sleep of a second;
\* the loop ends at the first check that finds no process, and after the
\* last pass
StopWait(c) ==
    /\ cmds[c].pc = "wait"
    /\ cmds' = IF cmds[c].tries < WaitChecks /\ is_running(cmds[c].pid)
               THEN [cmds EXCEPT ![c].tries = @ + 1]
               ELSE [cmds EXCEPT ![c].pc = "final"]
    /\ UNCHANGED <<pid_file, log_file, procs, runs, overlap>>
    /\ UNCHANGED <<app_vars, resolver_vars>>

\* stop(), lines 99-106: the check after the loop; with no process left, the
\* cleanup and the return
StopFinal(c) ==
    /\ cmds[c].pc = "final"
    /\ LET seen == procs[cmds[c].pid].state
       IN IF is_running(cmds[c].pid)
          THEN /\ cmds' = [cmds EXCEPT ![c].pc = "kill", ![c].found = seen]
               /\ UNCHANGED pid_file
          ELSE /\ cmds' = [cmds EXCEPT ![c] =
                             [Return(c, "stop", TRUE, "stopped") EXCEPT !.found = seen]]
               /\ pid_file' = cleanup
    /\ UNCHANGED <<log_file, procs, runs, overlap>>
    /\ UNCHANGED <<app_vars, resolver_vars>>

\* stop(), lines 101-106: the forced signal, a sleep, the cleanup, the return
StopKill(c) ==
    /\ cmds[c].pc = "kill"
    /\ IF ~Exists(cmds[c].pid)
       THEN StopError(c)
       ELSE /\ procs' = Signalled(cmds[c].pid, forced_signal)
            /\ cmds' = [cmds EXCEPT ![c] =
                          [Return(c, "stop", TRUE, "stopped")
                              EXCEPT !.signals = Append(@, forced_signal)]]
            /\ pid_file' = cleanup
    /\ UNCHANGED <<log_file, runs, overlap>>
    /\ UNCHANGED <<app_vars, resolver_vars>>

\* status()
Status(c) ==
    /\ CanBegin(c)
    /\ LET pid == get_pid
           here == [Idle EXCEPT !.op = "status", !.entry = Entry, !.pid = pid,
                                !.pc = "returned"]
       IN IF pid # NoPid /\ is_running(pid)
          THEN /\ cmds' = [cmds EXCEPT ![c] =
                             [here EXCEPT !.result = TRUE, !.outcome = "running"]]
               /\ UNCHANGED pid_file
          ELSE /\ cmds' = [cmds EXCEPT ![c] = [here EXCEPT !.outcome = "not_running"]]
               /\ pid_file' = cleanup
    /\ runs' = runs + 1
    /\ UNCHANGED <<log_file, procs, overlap>>
    /\ UNCHANGED <<app_vars, resolver_vars>>

\* main() returns and the command's process exits: its children that have
\* ended leave the process table, those that run are handed over to init
Exit(c) ==
    /\ cmds[c].pc = "returned"
    /\ cmds' = [cmds EXCEPT ![c] = Idle]
    /\ procs' = [p \in Pids |->
                   IF procs[p].parent # c THEN procs[p]
                   ELSE IF procs[p].state = "zombie" THEN [state |-> "gone", parent |-> 0]
                   ELSE [procs[p] EXCEPT !.parent = 0]]
    /\ UNCHANGED <<pid_file, log_file, runs, overlap>>
    /\ UNCHANGED <<app_vars, resolver_vars>>

\* the server process ends: app.py fails at start-up or later, or a SIGTERM
\* or SIGKILL it was sent takes effect
ServerExits(p) ==
    /\ procs[p].state = "running"
    /\ procs' = [procs EXCEPT ![p] = Ended(p)]
    /\ UNCHANGED <<pid_file, log_file, cmds, runs, overlap>>
    /\ UNCHANGED <<app_vars, resolver_vars>>

\* ------------------------------------------------------------- specification
\* the process starts as a script (python app.py) or with app imported by a
\* host that serves it; the database file is on disk or not
AppInit ==
    /\ mode \in {"script", "imported"}
    /\ main_pc = IF mode = "script" THEN "start" ELSE "serving"
    /\ \E present \in BOOLEAN :
         /\ fs = [p \in Paths |-> IF p = DB_FILE /\ present THEN 0 ELSE NoFile]
         /\ inodes = [i \in Inodes |-> IF i = 0 /\ present THEN InitialFile ELSE Unused]
    /\ sched_pc = "none"
    /\ response = NoResponse
    /\ outcome = "none"
    /\ sleep_left = 0
    /\ since_end = 0
    /\ cycle_start = Snapshot
    /\ readers = [i \in Inodes |-> 0]
    /\ calls = 0
    /\ last = NoReply

\* no request is with the resolver
NoRequest ==
    /\ headers = <<>>
    /\ remote_addr = <<>>
    /\ client_ip = NotResolved

\* no server_manager.py command has been run
NoCommand ==
    /\ pid_file = NoPidFile
    /\ log_file = 0
    /\ procs = [p \in Pids |-> Unborn]
    /\ cmds = [c \in Cmds |-> Idle]
    /\ runs = 0

Init == AppInit /\ NoRequest /\ NoCommand /\ overlap = FALSE

\* the reply goes out to the client
SendReply ==
    /\ last # NoReply
    /\ last' = NoReply
    /\ UNCHANGED <<mode, main_pc, fs, inodes, sched_pc, response, outcome,
                   sleep_left, since_end, cycle_start, readers, calls>>
    /\ UNCHANGED <<resolver_vars, manager_vars>>

SchedNext == Fetch \/ OpenTmp \/ Write \/ Replace \/ Wake

MainNext == StartupLookup \/ schedule_db_updates \/ AppRun

ReqNext == MissingParameter \/ LookupOpen \/ \E i \in Inodes : LookupQuery(i)

Next == MainNext \/ SchedNext \/ Tick \/ ReqNext \/ SendReply

Spec == Init /\ [][Next]_vars

\* The update thread and the clock keep running while the process lives, and
\* a reply does not stay unsent. A reply that waits to be sent holds the other
\* steps up for one step only, so a step of the thread that can be taken is
\* enabled again and again until it is taken: the fairness is the strong one
FairSpec ==
    /\ Spec
    /\ SF_vars(SchedNext)
    /\ SF_vars(Tick)
    /\ WF_vars(SendReply)

\* The resolver on its own: a request with any of the four headers sent, each
\* with any value, from any remote address, in a process that serves
ResolverInit ==
    /\ AppInit
    /\ mode = "imported"
    /\ fs[DB_FILE] # NoFile
    /\ \E sent \in [1 .. 4 -> BOOLEAN] :
       \E v1 \in HeaderValues(ProxyHeaders[1]), v2 \in HeaderValues(ProxyHeaders[2]),
          v3 \in HeaderValues(ProxyHeaders[3]), v4 \in HeaderValues(ProxyHeaders[4]) :
         /\ \A n \in 1 .. 4 : ~sent[n] => <<v1, v2, v3, v4>>[n] = <<>>
         /\ headers = [k \in {ProxyHeaders[n] : n \in {m \in 1 .. 4 : sent[m]}} |->
                          <<v1, v2, v3, v4>>[CHOOSE n \in 1 .. 4 : ProxyHeaders[n] = k]]
    /\ remote_addr \in RemoteAddrs
    /\ client_ip = NotResolved
    /\ NoCommand
    /\ overlap = FALSE

ResolverNext == ResolveClientIP

ResolverSpec == ResolverInit /\ [][ResolverNext]_vars

\* The supervisor on its own. The state of app.py inside the server process
\* is not followed: the server is a process that runs or has ended
ServerOnly ==
    /\ AppInit
    /\ mode = "imported"
    /\ fs[DB_FILE] # NoFile
    /\ NoRequest
    /\ NoCommand

\* commands run one after the other, as one operator at one shell runs them
ManagerInit == ServerOnly /\ overlap = FALSE

\* commands run side by side
ConcurrentInit == ServerOnly /\ overlap = TRUE

ManagerNext ==
    \/ \E c \in Cmds :
         \/ StartBegin(c) \/ StartSpawn(c) \/ StartOpenPid(c) \/ StartWritePid(c)
         \/ StartVerify(c)
         \/ StopBegin(c) \/ StopTerm(c) \/ StopWait(c) \/ StopFinal(c) \/ StopKill(c)
         \/ Status(c)
         \/ Exit(c)
    \/ \E p \in Pids : ServerExits(p)

ManagerSpec == ManagerInit /\ [][ManagerNext]_vars

ConcurrentSpec == ConcurrentInit /\ [][ManagerNext]_vars

\* ------------------------------------------------------------------- claims
DbChanged == Snapshot' [DB_FILE] # Snapshot[DB_FILE]

FetchFailures == {"ConnectionError", "Timeout", "HTTPError"}

QueryErrors == {"ValueError", "FileNotFoundError", "InvalidDatabaseError"}

\* C1: the database path never names a partially written file: when it names
\* a file, that file is all of a database snapshot, and so is every file a
\* lookup has open; once the start-up lookup has passed the path names a
\* database at every instant; and what the path names changes in no step but
\* the os.replace that ends a successful cycle, which puts the fully written
\* temporary file there.
C1_NeverPartiallyWritten ==
    /\ [](/\ fs[DB_FILE] # NoFile => Valid(Content(DB_FILE))
          /\ \A i \in Inodes : readers[i] > 0 => Valid(inodes[i])
          /\ mode = "script" /\ main_pc \in {"tested", "scheduled", "serving"}
                => fs[DB_FILE] # NoFile)
    /\ [][DbChanged =>
            /\ sched_pc = "replace"
            /\ outcome' = "ok"
            /\ Complete(Content(tmp_path))
            /\ Snapshot'[DB_FILE] = Snapshot[tmp_path]]_vars

\* C1 witness: a lookup has the database open while the update thread has
\* written part of the temporary file
C1_Witness ==
    /\ sched_pc = "write"
    /\ Content(tmp_path).len > 0
    /\ ~Complete(Content(tmp_path))
    /\ fs[DB_FILE] # NoFile
    /\ readers[fs[DB_FILE]] > 0

\* C2: a lookup opens the file the database path names at that moment: a
\* lookup that starts after a replace has completed holds the new file, never
\* one the replace has put out of the path.
C2_OpensCurrentDatabase ==
    [][InFlight' > InFlight =>
          /\ fs[DB_FILE] # NoFile
          /\ readers'[fs[DB_FILE]] = readers[fs[DB_FILE]] + 1]_vars

\* C2 witness: the cycle has replaced the database, and a lookup returns a
\* result read from the file the replace put at the path, which it can only
\* have opened after the replace
C2_Witness ==
    /\ sched_pc = "sleeping"
    /\ outcome = "ok"
    /\ cycle_start[DB_FILE][1] # fs[DB_FILE]
    /\ last.pc = "returned"
    /\ last.status = 200
    /\ last.opened = fs[DB_FILE]
    /\ last.result_from = fs[DB_FILE]

\* C3: a lookup that had the database open answers from the one file it
\* opened, whether or not a replace came in between: it never fails for a
\* missing or unreadable database, and a known address gets a 200 whose result
\* is read from the file opened.
C3_InFlightLookupUnaffected ==
    last.opened # NoFile =>
        /\ last.pc = "returned"
        /\ last.exc \notin {"FileNotFoundError", "InvalidDatabaseError"}
        /\ last.ip = KnownIP => /\ last.status = 200
                                /\ last.result_from = last.opened

\* C3 witness: a lookup returns a result after the file it opened was replaced
C3_Witness ==
    /\ last.pc = "returned"
    /\ last.replaced
    /\ last.status = 200
    /\ last.result_from = last.opened
    /\ last.result_from # fs[DB_FILE]

\* C4: after a cycle that failed with an OSError (the write of the temporary
\* file, its open, or the replace), the database path names the same file
\* with the same content as when the cycle started, and that file is a whole
\* database.
C4_WriteFailureLeavesDatabase ==
    sched_pc = "sleeping" /\ outcome = "OSError" =>
        /\ Snapshot[DB_FILE] = cycle_start[DB_FILE]
        /\ Valid(Content(DB_FILE))

\* C4 witness: the write failed with part of the body on disk, and a lookup
\* is answered from the database
C4_Witness ==
    /\ sched_pc = "sleeping"
    /\ outcome = "OSError"
    /\ Content(tmp_path).len > 0
    /\ ~Complete(Content(tmp_path))
    /\ last.status = 200
    /\ last.result_from = fs[DB_FILE]

\* C5: a fetch that fails writes nothing: while the cycle holds a response
\* whose status is not a success, and after a cycle that ended with a
\* transport failure, a timeout or an HTTP error, the database file and the
\* temporary file are as they were when the cycle started.
C5_FetchFailureWritesNothing ==
    /\ response # NoResponse /\ response.status >= 400 => Snapshot = cycle_start
    /\ sched_pc = "sleeping" /\ outcome \in FetchFailures => Snapshot = cycle_start

\* C5 witness: a cycle ended with an HTTP error while an earlier cycle's
\* temporary file is on disk
C5_Witness ==
    /\ sched_pc = "sleeping"
    /\ outcome = "HTTPError"
    /\ fs[tmp_path] # NoFile

\* C6: the update thread never dies, and after a cycle that failed it always
\* comes to start the next cycle.
C6_FailuresNeverStopScheduler ==
    /\ [](sched_pc # "dead")
    /\ (sched_pc = "sleeping" /\ outcome \in FetchFailures \cup {"OSError"})
          ~> (sched_pc = "download")

\* C6 witness: a cycle starts with the whole temporary file of a cycle whose
\* replace failed still on disk
C6_Witness ==
    /\ sched_pc = "download"
    /\ fs[tmp_path] # NoFile
    /\ Complete(Content(tmp_path))

\* C7: the first cycle starts in the step that starts the thread, with no
\* sleep before it; every other cycle starts from the sleep that follows the
\* end of the cycle before it, and only when REFRESH_INTERVAL seconds have
\* passed since that end, whether that cycle succeeded or failed.
C7_FixedInterval ==
    [][/\ sched_pc = "none" /\ sched_pc' # "none" => sched_pc' = "download"
       /\ sched_pc \notin {"none", "download"} /\ sched_pc' = "download"
             => sched_pc = "sleeping" /\ since_end >= REFRESH_INTERVAL]_vars

\* C7 witness: a cycle that failed is over and the interval has passed
C7_Witness ==
    /\ sched_pc = "sleeping"
    /\ outcome \in FetchFailures
    /\ since_end = REFRESH_INTERVAL
    /\ sleep_left = 0

\* C8: started as a script with no database file on disk, the process gets
\* past its start-up lookup, so that the update thread is started.
C8_StartsWithoutDatabase ==
    mode = "script" /\ fs[DB_FILE] = NoFile => main_pc # "crashed"

\* C9: the outcome of the lookup decides the reply of either handler: a
\* location gives 200 with success and a result, AddressNotFoundError gives
\* 404 without success, any other failure gives 500 without success and with
\* the failure's message; success goes with status 200 and with no other, and
\* a reply without success carries an error string.
C9_OutcomeDecidesReply ==
    last.pc = "returned" =>
        /\ last.success <=> last.status = 200
        /\ ~last.success => last.error # <<>>
        /\ last.status # 400 =>
              /\ last.handler \in Handlers
              /\ last.exc = "none" =>
                    last.status = 200 /\ last.result_from # NoFile
              /\ last.exc = "AddressNotFoundError" =>
                    last.status = 404 /\ last.error = <<NotFoundMessage>>
              /\ last.exc \in QueryErrors =>
                    last.status = 500 /\ last.error = str(last.exc, last.ip)
              /\ last.opened # NoFile /\ last.ip = AbsentIP => last.status = 404
              /\ last.opened # NoFile /\ last.ip = MalformedIP => last.status = 500

\* C9 witness: lookup_ip_parameter answers 404 for an address the database
\* does not hold
C9_Witness ==
    /\ last.pc = "returned"
    /\ last.handler = "lookup_ip_parameter"
    /\ last.ip = AbsentIP
    /\ last.status = 404
    /\ ~last.success

\* C10: no failure of the lookup leaves a handler: with no database file, and
\* with any other failure that is not AddressNotFoundError, the handler
\* returns a 500 reply, and the process goes on serving.
C10_HandlersContainFailures ==
    /\ last.pc # "escaped"
    /\ last.exc \in QueryErrors =>
          /\ last.pc = "returned"
          /\ last.status = 500
          /\ ~last.success
          /\ main_pc = "serving"
    /\ fs[DB_FILE] = NoFile /\ last.pc # "none" /\ last.status # 400 =>
          last.status = 500

\* C10 witness: a handler answers 500 while no database file is on disk
C10_Witness ==
    /\ fs[DB_FILE] = NoFile
    /\ last.pc = "returned"
    /\ last.exc = "FileNotFoundError"
    /\ last.status = 500
    /\ main_pc = "serving"

\* C11: lookup_ip_parameter called without an ip value (the parameter absent
\* or empty) returns 400 with success false and the usage hint, and the lookup
\* engine is not invoked: no exception of the engine is in the reply, no file
\* was opened or read for it, and the step that returns it leaves the files
\* and the open handles as they were.
C11_MissingValueIs400 ==
    /\ [](last.pc # "none" /\ last.handler = "lookup_ip_parameter"
             /\ last.ip \in NoValue =>
                /\ last.pc = "returned"
                /\ last.status = 400
                /\ ~last.success
                /\ last.error = <<UsageHint>>
                /\ last.exc = "none"
                /\ last.opened = NoFile
                /\ last.result_from = NoFile)
    /\ [][last' # NoReply /\ last'.status = 400 =>
            UNCHANGED <<fs, inodes, readers>>]_vars

\* C11 witness: the 400 reply for an empty ip value is returned while the
\* database is on disk and no lookup has it open
C11_Witness ==
    /\ last.pc = "returned"
    /\ last.handler = "lookup_ip_parameter"
    /\ last.ip = ""
    /\ last.status = 400
    /\ fs[DB_FILE] # NoFile
    /\ InFlight = 0

\* r is v without the blanks at its two ends
IsTrimOf(r, v) ==
    \E a, b \in 0 .. Len(v) :
        /\ a + b <= Len(v)
        /\ r = SubSeq(v, a + 1, Len(v) - b)
        /\ \A j \in 1 .. a : v[j] = " "
        /\ \A j \in (Len(v) - b + 1) .. Len(v) : v[j] = " "
        /\ r # <<>> => r[1] # " " /\ r[Len(r)] # " "

\* e is what v has before its first comma, all of v when it has none
IsFirstEntryOf(e, v) ==
    \E n \in 0 .. Len(v) :
        /\ e = SubSeq(v, 1, n)
        /\ \A j \in 1 .. n : v[j] # ","
        /\ n = Len(v) \/ v[n + 1] = ","

\* r is the address header k gives
IsTakenFrom(r, k) ==
    IF k = "X-Forwarded-For"
    THEN \E n \in 0 .. Len(headers[k]) :
            /\ IsFirstEntryOf(SubSeq(headers[k], 1, n), headers[k])
            /\ IsTrimOf(r, SubSeq(headers[k], 1, n))
    ELSE IsTrimOf(r, headers[k])

\* the place in ProxyHeaders of the first header that counts, 0 when none does
FirstWhere(Counts(_)) ==
    LET S == {n \in 1 .. 4 : Counts(ProxyHeaders[n])}
    IN IF S = {} THEN 0 ELSE CHOOSE n \in S : \A m \in S : n <= m

\* the request carries header k
Sent(k) == k \in DOMAIN headers

\* the request carries header k with a value of at least one character
SentNotEmpty(k) == k \in DOMAIN headers /\ Len(headers[k]) > 0

\* what get_client_ip returned is taken from the first header that counts,
\* and is the remote address when no header counts
ResolvedFromFirst(Counts(_)) ==
    client_ip.done =>
        LET n == FirstWhere(Counts)
        IN IF n = 0 THEN client_ip.ip = remote_addr
           ELSE IsTakenFrom(client_ip.ip, ProxyHeaders[n])

\* C12 as stated: get_client_ip returns the value of the first header that is
\* present in the order X-Forwarded-For, X-Real-IP, CF-Connecting-IP,
\* X-Originating-IP (for X-Forwarded-For what stands before the first comma,
\* trimmed; for the others the trimmed value) and the remote address only
\* when none of the four is present.
C12_FirstPresentHeaderWins == ResolvedFromFirst(Sent)

\* C12 as amended: the same with "present" read as "sent with a value that is
\* not empty": a header sent with an empty value is passed over like one that
\* is not sent.
C12_FirstNotEmptyHeaderWins == ResolvedFromFirst(SentNotEmpty)

\* C12 witness: X-Forwarded-For holds an address and a comma, X-Real-IP is sent
\* too, and the address before the comma is returned
C12_Witness ==
    /\ client_ip.done
    /\ Sent("X-Forwarded-For")
    /\ headers["X-Forwarded-For"] = <<"1", ",">>
    /\ SentNotEmpty("X-Real-IP")
    /\ client_ip.ip = <<"1">>

\* the message names the path
Names(message, path) == \E j \in 1 .. Len(message) : message[j] = path

\* C13: the error message of a 500 reply never holds the path of the database
\* file, whatever the failure, the missing database file included.
C13_NoPathInErrorMessage ==
    last.pc = "returned" /\ last.status = 500 => ~Names(last.error, DB_FILE)

\* C14: a lookup holds its database handle for the time of its call only: in
\* every state there are no more open handles than lookups in flight, none
\* when no lookup is in flight, and when a handler returns after a lookup that
\* had the database open, with a result, a 404 or a 500, the handles left
\* open are those of the other lookups.
C14_HandleHeldForTheCallOnly ==
    /\ OpenHandles <= InFlight
    /\ InFlight = 0 => OpenHandles = 0
    /\ last.opened # NoFile => OpenHandles = InFlight

\* C14 witness: a lookup that had the database open ended with an error, and
\* no handle is left open
C14_Witness ==
    /\ last.pc = "returned"
    /\ last.opened # NoFile
    /\ last.exc = "ValueError"
    /\ last.status = 500
    /\ InFlight = 0
    /\ OpenHandles = 0

\* a step of a request handler: a lookup begins or ends, or a reply is made
HandlerStep == calls' # calls \/ readers' # readers \/ last' # last

\* C15: the database file is written by the update thread alone: a step of a
\* request handler, whatever its outcome, leaves the database file and the
\* temporary file as they are, and the file the database path names and its
\* content change in no step but the os.replace of download_latest_db.
C15_OnlySchedulerWrites ==
    [][/\ HandlerStep => Snapshot' = Snapshot
       /\ DbChanged => sched_pc = "replace" /\ sched_pc' = "sleeping"]_vars

\* C15 witness: a handler returns a failure while the update thread is in the
\* middle of writing the temporary file, and the database file is as it was
\* when the cycle started
C15_Witness ==
    /\ last.pc = "returned"
    /\ last.status = 500
    /\ last.opened # NoFile
    /\ sched_pc = "write"
    /\ Content(tmp_path).len > 0
    /\ Snapshot[DB_FILE] = cycle_start[DB_FILE]

\* command c has returned from op
Returned(c, op) == cmds[c].pc = "returned" /\ cmds[c].op = op

\* the PID file the command found names a process that ran
NamedLiveProcess(e) == e.pid_file.exists /\ e.pid_file.pid \in e.alive

\* C16: start, run with no other command beside it, launches no second
\* server while the PID file names a live process: it then returns False and
\* leaves the PID file, the log file and the processes as they are.
\* Otherwise it starts exactly one process; when that process runs at the
\* check after the delay, start returns True and the PID file holds its PID;
\* when it does not run any more at that check, start returns False and the
\* PID file is removed.
C16_StartLaunchesOneServer ==
    \A c \in Cmds :
        Returned(c, "start") =>
            LET e == cmds[c].entry
                child == cmds[c].child
            IN IF NamedLiveProcess(e)
               THEN /\ ~cmds[c].result
                    /\ child = NoPid
                    /\ Spawned = e.spawned
                    /\ pid_file = e.pid_file
                    /\ log_file = e.log_file
                    /\ cmds[c].signals = <<>>
               ELSE /\ child # NoPid
                    /\ Spawned = e.spawned + 1
                    /\ cmds[c].found = "running" =>
                          /\ cmds[c].result
                          /\ pid_file.exists /\ pid_file.pid = child
                    /\ cmds[c].found # "running" =>
                          /\ ~cmds[c].result
                          /\ ~pid_file.exists

\* C17: stop, run with no other command beside it, sends SIGTERM first and
\* SIGKILL only after it, and SIGKILL only when all ten checks of the wait and
\* the check after it found the process running; when stop returns after it
\* found a PID file (the server stopped, the PID file stale, or an error
\* while signalling), the PID file is removed; and stop returns True on the
\* path alone where the signals were sent without an error.
C17_StopTermThenKill ==
    \A c \in Cmds :
        /\ cmds[c].op = "stop" =>
              cmds[c].signals \in {<<>>, <<"SIGTERM">>, <<"SIGTERM", "SIGKILL">>}
        /\ Returned(c, "stop") =>
              /\ Len(cmds[c].signals) = 2 =>
                    cmds[c].tries = WaitChecks /\ cmds[c].found = "running"
              /\ cmds[c].entry.pid_file.exists => ~pid_file.exists
              /\ cmds[c].outcome \in {"stopped", "stale", "error"} =>
                    ~pid_file.exists
              /\ cmds[c].result <=> cmds[c].outcome = "stopped"
              /\ cmds[c].result => cmds[c].signals # <<>>
              /\ cmds[c].outcome \in {"not_running", "stale"} =>
                    cmds[c].signals = <<>>

\* C17 witness: the server outlived the ten checks, was sent SIGKILL after
\* SIGTERM, and stop returns True with the PID file removed
C17_Witness ==
    \E c \in Cmds :
        /\ Returned(c, "stop")
        /\ cmds[c].signals = <<"SIGTERM", "SIGKILL">>
        /\ cmds[c].tries = WaitChecks
        /\ cmds[c].result
        /\ cmds[c].entry.pid_file.exists
        /\ ~pid_file.exists
        /\ Alive = {}

\* C18: with commands run side by side in any interleaving, at most one
\* server process started by the manager runs at a time, and whenever one
\* runs while no command is under way, the PID file exists and names it.
C18_OneServerUnderConcurrency ==
    /\ Cardinality(Alive) <= 1
    /\ (\A c \in Cmds : cmds[c].pc \in {"idle", "returned"}) /\ Alive # {} =>
          pid_file.exists /\ pid_file.pid \in Alive

====
